---- MODULE Spec2Model ----
(***************************************************************************)
(* The assignment engine of secretsantabot: Person, Participant and        *)
(* SecretSanta of secretsanta.py, driven by the admin commands of bot.py.  *)
(*                                                                         *)
(* A name is a sequence of code points ("Al" is <<65, 108>>).  A Person is *)
(* an identity (its row id) with a name; a Participant row is a record     *)
(* [person, ordering, seen]; SecretSanta.participants is the list of the   *)
(* rows in insertion order.  The process-wide random stream of the random  *)
(* module is the variable rng.                                             *)
(***************************************************************************)
EXTENDS Integers, Sequences, FiniteSets, TLC

\* ---------------------------------------------------------------- bounds
MaxSeed == 3            \* seeds are drawn from 0..MaxSeed-1 (2^32 in the code)
RngMod == 7             \* number of states of the random stream
MaxAdmins == 2          \* SecretSanta.admins is followed up to this length

\* ------------------------------------------------------------- constants
None == -1              \* a NULL column / Python None

\* datetime.now().  The engine only ever tests a timestamp against NULL, so
\* every datetime is the same value here.
datetime_now == 1

Engines == {1, 2}
Seeds == 0..(MaxSeed - 1)
RngStates == 0..(RngMod - 1)

\* The Person rows and their names: "Al", "a l" and "Bo".  The first two
\* differ as strings and have the same normalized name.
RosterNames == << <<65, 108>>, <<97, 32, 108>>, <<66, 111>> >>

People == DOMAIN RosterNames

name(p) == RosterNames[p]

\* A name typed by an admin that no Person carries: "Zed".
AbsentName == <<90, 101, 100>>

\* ------------------------------------------------------------ Person
\* str.lower() on one code point
lower(c) == IF c >= 65 /\ c <= 90 THEN c + 32 ELSE c

\* the characters the regular expression \s matches
IsSpace(c) == c \in {9, 10, 11, 12, 13, 32}

RECURSIVE StripSpace(_)
StripSpace(s) ==
  IF s = <<>> THEN <<>>
  ELSE IF IsSpace(Head(s)) THEN StripSpace(Tail(s))
       ELSE <<Head(s)>> \o StripSpace(Tail(s))

\* Person.normalize_name: lower-case, then delete every run of whitespace
normalize_name(n) == StripSpace([i \in 1..Len(n) |-> lower(n[i])])

\* Person.normalized_name, tabulated for every Person row
NormalizedNames == [p \in DOMAIN RosterNames |-> normalize_name(RosterNames[p])]

normalized_name(p) == NormalizedNames[p]

\* Person.__eq__ (and __hash__): equality of normalized names
PersonEq(p, q) == normalized_name(p) = normalized_name(q)

\* str < str: lexicographic order on code points
RECURSIVE StrLess(_, _)
StrLess(a, b) ==
  IF b = <<>> THEN FALSE
  ELSE IF a = <<>> THEN TRUE
  ELSE IF Head(a) # Head(b) THEN Head(a) < Head(b)
  ELSE StrLess(Tail(a), Tail(b))

\* the names an admin may type: the name of any Person, or one nobody has
InputNames == {name(p) : p \in People} \cup {AbsentName}

\* ------------------------------------------------------------ state
VARIABLES
  participants,   \* [Engines -> Seq([person, ordering, seen])]
  seed,           \* [Engines -> Seeds \cup {None}]
  rng,            \* state of the process-wide random stream, None if unseeded
  last,           \* the last call made and how it ended
  late,           \* history: [Engines -> the persons added while the engine was
                  \* drawn, still participating, and not covered by a forced
                  \* draw since]
  revealed,       \* history: [Engines -> the persons update_seen returned for
                  \* since the last draw, and not removed since]
  admins,         \* SecretSanta.admins of the bot's secret santa (engine 1)
  command,        \* the last chat command: who sent it, what the bot replied,
                  \* and whom it sent an allocation to
  gen,            \* [Engines -> the frame of the generate_ordering call in
                  \* progress on the engine]
  observed,       \* what the last get_ordered_list of a concurrent reader
                  \* returned
  proc            \* two runs of the program: which one is running, the random
                  \* stream of the other, and the call the other has to repeat

vars == <<participants, seed, rng, last, late, revealed, admins, command,
          gen, observed, proc>>

\* the state of a host that runs calls concurrently, or the program twice
host == <<gen, observed, proc>>

\* the state the chat bot adds to the engines
bot == <<admins, command>>

\* a call of a method of SecretSanta made directly, not through a chat
\* command; the history of the reveals is not kept
EngineOnly == UNCHANGED <<revealed, admins, command, gen, observed, proc>>

\* a new row that is given the first slot at once instead of NULL
Participant_slotted(p) == [person |-> p, ordering |-> 0, seen |-> None]

\* Participant(participant=person): ordering and seen are NULL
Participant(p) == [person |-> p, ordering |-> None, seen |-> None]

\* a call record that reports every draw as raised, also one carried out
Call_draw_raised(op, e, p, force, reset_seen, exc) ==
  [op |-> op, engine |-> e, person |-> p, force |-> force,
   reset_seen |-> reset_seen,
   exc |-> IF op = "generate_ordering" THEN "RuntimeError" ELSE exc]

\* a call: the operation, the engine, the Person concerned (0 if none), the
\* force and reset_seen flags, and the exception raised ("none" if it returned)
Call(op, e, p, force, reset_seen, exc) ==
  [op |-> op, engine |-> e, person |-> p, force |-> force,
   reset_seen |-> reset_seen, exc |-> exc]

NoCall == Call("init", 1, 0, FALSE, FALSE, "none")

\* ------------------------------------------------------------ helpers
Range(s) == {s[i] : i \in DOMAIN s}

InjectiveSeqs(S, n) ==
  {s \in UNION {[1..k -> S] : k \in 0..n} :
     \A i, j \in DOMAIN s : i # j => s[i] # s[j]}

PersonsOf(rows) == {rows[i].person : i \in DOMAIN rows}

\* sorted(rows, key=...): the stable sort; key[i] is the sort key of s[i].
\* Row i goes after every row with a smaller key and after the earlier rows
\* with an equal key.
sorted(s, key) ==
  LET rank(i) == 1 + Cardinality({j \in DOMAIN s :
                        \/ key[j] < key[i]
                        \/ (key[j] = key[i] /\ j < i)})
  IN [k \in DOMAIN s |-> s[CHOOSE i \in DOMAIN s : rank(i) = k]]

\* the order of the normalized names as numbers: NameKey[p] < NameKey[q] iff
\* normalized_name(p) < normalized_name(q), and equal names have equal keys
NameKey ==
  [p \in DOMAIN RosterNames |->
     Cardinality({q \in DOMAIN RosterNames :
                    StrLess(normalized_name(q), normalized_name(p))})]

\* key=attrgetter("participant.normalized_name")
ByName(rows) == [i \in DOMAIN rows |-> NameKey[rows[i].person]]

\* a key that sorts the rows by descending ordering
ByOrdering_descending(rows) == [i \in DOMAIN rows |-> 0 - rows[i].ordering]

\* key=attrgetter("ordering")
ByOrdering(rows) == [i \in DOMAIN rows |-> rows[i].ordering]

\* ------------------------------------------------------------ random
\* one step of the generator
RngNext(r) == (r * 5 + 3) % RngMod

\* Random._randbelow(n): a number in 0..n-1 and the stream after it
randbelow(n, r) == [val |-> RngNext(r) % n, rng |-> RngNext(r)]

\* a randint that takes every number from operating-system entropy
randint_entropy(a, b, r) == {[val |-> v, rng |-> r] : v \in a..b}

\* random.randint(a, b): the possible results.  Before the first
\* random.seed() the stream is seeded from operating-system entropy
\* (rng = None) and any number of the range may come out.
randint(a, b, r) ==
  IF r = None
  THEN {[val |-> v, rng |-> None] : v \in a..b}
  ELSE {[val |-> a + randbelow(b - a + 1, r).val, rng |-> randbelow(b - a + 1, r).rng]}

\* random.seed(s): the stream restarts from a state fixed by s
SeedState(s) == s % RngMod

\* random.sample(population, k=len(population)): the pool algorithm
\*   for i in range(k): j = randbelow(n-i); result[i] = pool[j];
\*                      pool[j] = pool[n-i-1]
RECURSIVE SamplePool(_, _, _)
SamplePool(pool, m, r) ==
  IF m = 0 THEN [out |-> <<>>, rng |-> r]
  ELSE LET d == randbelow(m, r)
           j == d.val + 1
           pool2 == [pool EXCEPT ![j] = pool[m]]
           rest == SamplePool(pool2, m - 1, d.rng)
       IN [out |-> <<pool[j]>> \o rest.out, rng |-> rest.rng]

sample(population, r) == SamplePool(population, Len(population), r)

\* ------------------------------------------------------------ queries
\* SecretSanta.get_ordered_list: the persons of the rows that have an
\* ordering, sorted by ordering
get_ordered_list(e) ==
  LET rows == SelectSeq(participants[e], LAMBDA x : x.ordering # None)
      srt == sorted(rows, ByOrdering(rows))
  IN [i \in 1..Len(srt) |-> srt[i].person]

\* list.index(person): 0-based position of the first element equal to
\* person under Person.__eq__, or None when there is none (ValueError)
index(lst, p) ==
  IF \E i \in DOMAIN lst : PersonEq(lst[i], p)
  THEN (CHOOSE i \in DOMAIN lst :
          /\ PersonEq(lst[i], p)
          /\ \A j \in 1..(i - 1) : ~PersonEq(lst[j], p)) - 1
  ELSE None

Returns(v) == [exc |-> "none", val |-> v]
Raises(x) == [exc |-> x, val |-> 0]

\* SecretSanta.has_who
has_who(e, p) ==
  LET secret_santa == get_ordered_list(e)
      i == index(secret_santa, p)
  IN IF i = None THEN Raises("ValueError")
     ELSE Returns(secret_santa[((i + 1) % Len(secret_santa)) + 1])

\* SecretSanta.who_has
who_has(e, p) ==
  LET secret_santa == get_ordered_list(e)
      i == index(secret_santa, p)
  IN IF i = None THEN Raises("ValueError")
     ELSE Returns(secret_santa[((i - 1) % Len(secret_santa)) + 1])

\* ------------------------------------------------------------ Init
\* SecretSanta(name, people, seed): every person of the roster is added in
\* list order with NULL ordering and seen; nothing is drawn.
NewEngine(people) == [i \in 1..Len(people) |-> Participant(people[i])]

\* no chat command has been handled
NoCommand == [op |-> "", user |-> 0, reply |-> "", sent |-> {}, manual |-> {},
              table |-> <<>>, exc |-> "none"]

\* the secret santa is used through its own methods: it has no admins, and
\* no chat command is handled
NoBot == admins = <<>> /\ command = NoCommand

\* no generate_ordering call is in progress
NoFrame == [pc |-> "idle", force |-> FALSE, reset_seen |-> FALSE, rows |-> <<>>,
            place |-> 0, before |-> <<>>]

\* one run of the program, making no call
NoProc == [running |-> 1, parked |-> None, pending |-> "none", p |-> 0,
           force |-> FALSE, reset_seen |-> FALSE, unseeded |-> FALSE]

\* every call runs to its end before the next one starts, in one process
NoRead == [engine |-> 0, list |-> <<>>]

OneAtATime ==
  /\ gen = [e \in Engines |-> NoFrame]
  /\ observed = NoRead
  /\ proc = NoProc

Init ==
  /\ \E roster \in InjectiveSeqs(People, Cardinality(People)) :
       participants = [e \in Engines |-> IF e = 1 THEN NewEngine(roster) ELSE <<>>]
  /\ \E s \in Seeds \cup {None} : seed = [e \in Engines |-> IF e = 1 THEN s ELSE None]
  /\ rng = None
  /\ last = NoCall
  /\ late = [e \in Engines |-> {}]
  /\ revealed = [e \in Engines |-> {}]
  /\ NoBot
  /\ OneAtATime

\* ------------------------------------------------------------ actions
\* the engine has been drawn: some row has an ordering
drawn(e) == \E i \in DOMAIN participants[e] : participants[e][i].ordering # None

\* SecretSanta.add_participant, called by Bot.add_person with a new Person
add_participant(e, p) ==
  /\ p \notin PersonsOf(participants[e])
  /\ participants' = [participants EXCEPT ![e] = Append(@, Participant(p))]
  /\ last' = Call("add_participant", e, p, FALSE, FALSE, "none")
  /\ late' = [late EXCEPT ![e] = IF drawn(e) THEN @ \cup {p} ELSE @]
  /\ UNCHANGED <<seed, rng>>

\* position (from 1) of the row of person p in a list of rows
PlaceOf(rows, p) == CHOOSE k \in DOMAIN rows : rows[k].person = p

\* a guard that refuses only when every row has an ordering
already_drawn_all(e, force) ==
  ~force /\ participants[e] # <<>>
         /\ \A i \in DOMAIN participants[e] : participants[e][i].ordering # None

\* the guard of generate_ordering: without force, any row that already has
\* an ordering makes it raise RuntimeError
already_drawn(e, force) == ~force /\ drawn(e)

\* a draw that takes a new random seed every time
draw_seeds_always(e, force) == {d.val : d \in randint(0, MaxSeed - 1, rng)}

\* the seeds generate_ordering may draw with: a new random one when there is
\* none yet or the draw is forced, else the one stored
draw_seeds(e, force) ==
  IF seed[e] = None \/ force
  THEN {d.val : d \in randint(0, MaxSeed - 1, rng)}
  ELSE {seed[e]}

\* a numbering in steps of one
place_ordering_unit(shuffled, p) == PlaceOf(shuffled, p) - 1

\* a numbering that gives each two neighbours of the shuffled list one value
place_ordering_paired(shuffled, p) == ((PlaceOf(shuffled, p) - 1) \div 2) * 10

\* a loop that stops one short and leaves the last of the shuffled list unset
place_ordering_short(shuffled, p) ==
  IF PlaceOf(shuffled, p) = Len(shuffled) THEN None ELSE (PlaceOf(shuffled, p) - 1) * 10

\* participant.ordering = place*10, place the index in the shuffled list
place_ordering(shuffled, p) == (PlaceOf(shuffled, p) - 1) * 10

\* a draw that clears seen whatever reset_seen says
seen_after_draw_cleared(reset_seen, old) == None

\* if reset_seen: participant.seen = None
seen_after_draw(reset_seen, old) == IF reset_seen THEN None ELSE old

\* SecretSanta.generate_ordering(force, reset_seen)
generate_ordering(e, force, reset_seen) ==
  IF already_drawn(e, force)
  THEN /\ last' = Call("generate_ordering", e, 0, force, reset_seen, "RuntimeError")
       /\ UNCHANGED <<participants, seed, rng, late>>
  ELSE \E newSeed \in draw_seeds(e, force) :
       LET sorted_participants == sorted(participants[e], ByName(participants[e]))
           shuffled == sample(sorted_participants, SeedState(newSeed))
       IN /\ seed' = [seed EXCEPT ![e] = newSeed]
          /\ rng' = shuffled.rng
          /\ participants' = [participants EXCEPT ![e] =
               [i \in DOMAIN participants[e] |->
                  [person |-> participants[e][i].person,
                   ordering |-> place_ordering(shuffled.out, participants[e][i].person),
                   seen |-> seen_after_draw(reset_seen, participants[e][i].seen)]]]
          /\ last' = Call("generate_ordering", e, 0, force, reset_seen, "none")
          /\ late' = [late EXCEPT ![e] = IF force THEN {} ELSE @]

\* TeamsSecretSantaBase.get_participant_by_name: index of the first row whose
\* normalized name is that of the name typed, or None
get_participant_by_name(e, n) ==
  LET key == normalize_name(n)
      hits == {i \in DOMAIN participants[e] :
                 normalized_name(participants[e][i].person) = key}
  IN IF hits = {} THEN None ELSE CHOOSE i \in hits : \A j \in hits : i <= j

\* a removal that closes the gap by renumbering the rows that remain
RemoveAt_renumber(s, i) ==
  LET r == SubSeq(s, 1, i - 1) \o SubSeq(s, i + 1, Len(s))
  IN [k \in DOMAIN r |->
        IF r[k].ordering = None THEN r[k]
        ELSE [r[k] EXCEPT !.ordering =
                10 * Cardinality({j \in DOMAIN r : r[j].ordering # None
                                                   /\ r[j].ordering < r[k].ordering})]]

\* list.remove(row)
RemoveAt(s, i) == SubSeq(s, 1, i - 1) \o SubSeq(s, i + 1, Len(s))

\* Bot.remove_person(name): participants.remove(row); removing None raises
remove_person(e, n) ==
  LET person == get_participant_by_name(e, n)
  IN IF person = None
     THEN /\ last' = Call("remove_person", e, 0, FALSE, FALSE, "ValueError")
          /\ UNCHANGED <<participants, seed, rng, late>>
     ELSE /\ participants' = [participants EXCEPT ![e] = RemoveAt(@, person)]
          /\ last' = Call("remove_person", e, participants[e][person].person,
                          FALSE, FALSE, "none")
          /\ late' = [late EXCEPT ![e] = @ \ {participants[e][person].person}]
          /\ UNCHANGED <<seed, rng>>

\* SecretSanta.update_seen(person): the first row equal to person is stamped
update_seen(e, p) ==
  LET hits == {i \in DOMAIN participants[e] : PersonEq(participants[e][i].person, p)}
  IN IF hits = {}
     THEN /\ last' = Call("update_seen", e, p, FALSE, FALSE, "IndexError")
          /\ UNCHANGED <<participants, seed, rng, late>>
     ELSE LET first == CHOOSE i \in hits : \A j \in hits : i <= j
          IN /\ participants' = [participants EXCEPT ![e][first].seen = datetime_now]
             /\ last' = Call("update_seen", e, p, FALSE, FALSE, "none")
             /\ UNCHANGED <<seed, rng, late>>

\* an element of a people list that is no Person object
NotPerson == 0

\* a type check that lets every object pass
isinstance_any(x) == TRUE

\* isinstance(x, Person)
isinstance_Person(x) == x \in People

\* the people lists a secret santa is started with: ["Bo"], and ["Bo", x]
\* with x no Person
StartLists == {<<3>>, <<3, NotPerson>>}

\* SecretSanta(name, people, seed), as Bot.start_secret_santa calls it for
\* the secret santa in slot e: the type check comes before anything is
\* stored; when it raises, the slot keeps the secret santa it had.
SecretSanta_init(e, people, s) ==
  IF ~ \A i \in DOMAIN people : isinstance_Person(people[i])
  THEN /\ last' = Call("__init__", e, 0, FALSE, FALSE, "TypeError")
       /\ UNCHANGED <<participants, seed, rng, late>>
  ELSE /\ participants' = [participants EXCEPT ![e] = NewEngine(people)]
       /\ seed' = [seed EXCEPT ![e] = s]
       /\ late' = [late EXCEPT ![e] = {}]
       /\ last' = Call("__init__", e, 0, FALSE, FALSE, "none")
       /\ UNCHANGED rng

Step(e) ==
  \/ \E p \in People : add_participant(e, p) /\ EngineOnly
  \/ \E force, reset_seen \in BOOLEAN :
       generate_ordering(e, force, reset_seen) /\ EngineOnly
  \/ \E n \in InputNames : remove_person(e, n) /\ EngineOnly
  \/ \E p \in People : update_seen(e, p) /\ EngineOnly

\* the admin commands on the secret santa of slot 1, and a second secret
\* santa started in slot 2
Next ==
  \/ Step(1)
  \/ \E people \in StartLists : SecretSanta_init(2, people, None) /\ EngineOnly

Spec == Init /\ [][Next]_vars

\* ------------------------------------------------------------ helpers of the properties
\* the persons that hold an ordering in engine e
DrawnPersons(e) ==
  {participants[e][i].person :
     i \in {j \in DOMAIN participants[e] : participants[e][j].ordering # None}}

\* the ordering of person p in a list of rows (None if p has no row)
OrderingOf(rows, p) ==
  IF p \in PersonsOf(rows) THEN rows[PlaceOf(rows, p)].ordering ELSE None

SeenOf(rows, p) ==
  IF p \in PersonsOf(rows) THEN rows[PlaceOf(rows, p)].seen ELSE None

\* has_who applied k times, as long as it returns
RECURSIVE HasWhoIter(_, _, _)
HasWhoIter(e, p, k) ==
  IF k = 0 THEN Returns(p)
  ELSE LET r == HasWhoIter(e, p, k - 1)
       IN IF r.exc # "none" THEN r ELSE has_who(e, r.val)

\* C1. Derangement: when at least two participants hold an ordering, no
\* drawn participant P gets P back from has_who(P).
C1_Derangement ==
  Cardinality(DrawnPersons(1)) >= 2 =>
    \A p \in DrawnPersons(1) : has_who(1, p) # Returns(p)

\* C2. Bijection: over the drawn participants has_who is injective (two
\* different participants never share a giftee) and onto (nobody is omitted).
C2_Bijection ==
  /\ \A p, q \in DrawnPersons(1) : p # q => has_who(1, p) # has_who(1, q)
  /\ \A q \in DrawnPersons(1) : \E p \in DrawnPersons(1) : has_who(1, p) = Returns(q)

\* C3. Inverse: who_has undoes has_who and has_who undoes who_has, for every
\* drawn participant.
C3_Inverse ==
  \A p \in DrawnPersons(1) :
    /\ has_who(1, p).exc = "none" /\ who_has(1, has_who(1, p).val) = Returns(p)
    /\ who_has(1, p).exc = "none" /\ has_who(1, who_has(1, p).val) = Returns(p)

\* C4. Cycle closure: with N >= 2 drawn participants, N applications of
\* has_who lead every drawn participant back to itself and no fewer do.
C4_SingleCycle ==
  LET N == Cardinality(DrawnPersons(1))
  IN N >= 2 =>
       \A p \in DrawnPersons(1) :
         /\ HasWhoIter(1, p, N) = Returns(p)
         /\ \A k \in 1..(N - 1) : HasWhoIter(1, p, k) # Returns(p)

\* every row of a list of rows has an ordering / some have and some have not
AllDrawn(rows) == \A i \in DOMAIN rows : rows[i].ordering # None
Mixed(rows) ==
  /\ \E i \in DOMAIN rows : rows[i].ordering # None
  /\ \E i \in DOMAIN rows : rows[i].ordering = None

\* the step is a call of generate_ordering on engine 1 with this force flag
IsGenerate(force) ==
  last'.op = "generate_ordering" /\ last'.engine = 1 /\ last'.force = force

\* C5. Re-draw guard: generate_ordering(force=False) on an engine in which a
\* participant already has an ordering raises (RuntimeError, the code's
\* AlreadyDrawn) and leaves every ordering, every seen and the seed as they were.
C5_RedrawGuard ==
  [][(drawn(1) /\ IsGenerate(FALSE)) =>
       /\ last'.exc = "RuntimeError"
       /\ participants' = participants
       /\ seed' = seed]_vars

C5_Witness ==
  /\ last.op = "generate_ordering" /\ ~last.force /\ last.exc = "RuntimeError"
  /\ Mixed(participants[1])
  /\ seed[1] # None

\* C6. Forced re-draw: generate_ordering(force=True) on a drawn engine
\* succeeds, changes the seed (the stored seed is replaced by one newly drawn
\* from the random stream), gives every current participant an ordering,
\* the orderings form a derangement (nobody has themself once two are
\* drawn), and every seen is reset to NULL (reset_seen left at its default).
C6_ForcedRedraw ==
  [][(drawn(1) /\ IsGenerate(TRUE) /\ last'.reset_seen) =>
       /\ last'.exc = "none"
       /\ seed'[1] \in {d.val : d \in randint(0, MaxSeed - 1, rng)}
       /\ AllDrawn(participants'[1])
       /\ (Len(participants'[1]) >= 2 =>
             \A p \in PersonsOf(participants'[1]) : (has_who(1, p) # Returns(p))')
       /\ \A i \in DOMAIN participants'[1] : participants'[1][i].seen = None]_vars

\* C7. No re-draw without an explicit override: the ordering of a participant
\* who has one and stays in the engine changes only in a generate_ordering
\* step called with force=True.
C7_NoSilentRedraw ==
  [][\A p \in People :
       (/\ OrderingOf(participants[1], p) # None
        /\ p \in PersonsOf(participants'[1])
        /\ OrderingOf(participants'[1], p) # OrderingOf(participants[1], p))
       => (IsGenerate(TRUE) /\ last'.exc = "none")]_vars

C7_Witness ==
  /\ last.op = "remove_person" /\ last.exc = "none"
  /\ Cardinality(DrawnPersons(1)) >= 2
  /\ \E i \in DOMAIN participants[1] :
       participants[1][i].ordering # None /\ participants[1][i].seen # None

\* ------------------------------------------------------------ two engines, one seed
\* Two engines are built with the same explicit seed from the same set of
\* people, listed in two orders, and each is drawn without force.
InitRepro ==
  /\ \E r1, r2 \in InjectiveSeqs(People, Cardinality(People)) :
       /\ Range(r1) = Range(r2)
       /\ participants = [e \in Engines |-> IF e = 1 THEN NewEngine(r1) ELSE NewEngine(r2)]
  /\ \E s \in Seeds : seed = [e \in Engines |-> s]
  /\ rng = None
  /\ last = NoCall
  /\ late = [e \in Engines |-> {}]
  /\ revealed = [e \in Engines |-> {}]
  /\ NoBot
  /\ OneAtATime

NextRepro ==
  \E e \in Engines, reset_seen \in BOOLEAN :
    generate_ordering(e, FALSE, reset_seen) /\ EngineOnly

SpecRepro == InitRepro /\ [][NextRepro]_vars

\* C8. Reproducibility: two engines with the same seed and the same set of
\* participants, inserted in different orders, get the same ordering for
\* every person from a non-forced generate_ordering.
C8_Reproducible ==
  (drawn(1) /\ drawn(2)) =>
    \A p \in People : OrderingOf(participants[1], p) = OrderingOf(participants[2], p)

\* the step is add_participant on engine 1, drawn at that time
IsAddAfterDraw == drawn(1) /\ last'.op = "add_participant" /\ last'.engine = 1

\* what add_participant leaves alone on a drawn engine: the rows that were
\* there keep ordering and seen, the new row has neither, and the ordered
\* list is the same as before, without the new person
AddFrame ==
  IsAddAfterDraw =>
    /\ Len(participants'[1]) = Len(participants[1]) + 1
    /\ SubSeq(participants'[1], 1, Len(participants[1])) = participants[1]
    /\ participants'[1][Len(participants'[1])] =
         [person |-> last'.person, ordering |-> None, seen |-> None]
    /\ get_ordered_list(1)' = get_ordered_list(1)
    /\ \A i \in DOMAIN get_ordered_list(1)' : get_ordered_list(1)'[i] # last'.person

\* C9 as stated. Add-after-draw: add_participant on a drawn engine leaves the
\* existing orderings and seen untouched, the new participant has NULL
\* ordering and seen, and stays out of get_ordered_list until the next
\* forced draw.
C9_AddAfterDraw_UntilForced ==
  [][/\ AddFrame
     /\ \A p \in late[1] :
          (/\ OrderingOf(participants[1], p) = None
           /\ p \in PersonsOf(participants'[1])
           /\ OrderingOf(participants'[1], p) # None)
          => IsGenerate(TRUE)]_vars

\* C9 amended. As above, but the new participant stays out of
\* get_ordered_list until the next successful draw: a forced one, or a
\* non-forced one once no participant holds an ordering any more.
C9_AddAfterDraw ==
  [][/\ AddFrame
     /\ \A p \in late[1] :
          (/\ OrderingOf(participants[1], p) = None
           /\ p \in PersonsOf(participants'[1])
           /\ OrderingOf(participants'[1], p) # None)
          => /\ last'.op = "generate_ordering" /\ last'.exc = "none"
             /\ (last'.force \/ ~drawn(1))]_vars

C9_Witness ==
  /\ last.op = "add_participant"
  /\ last.person \in late[1]
  /\ OrderingOf(participants[1], last.person) = None
  /\ \E i \in DOMAIN participants[1] :
       participants[1][i].ordering # None /\ participants[1][i].seen # None

\* C10 as stated. All-or-nothing: in every reachable state either every
\* participant has an ordering or none has.
C10_AllOrNothing == ~Mixed(participants[1])

\* C10 amended. The draw is all-or-nothing: right after every successful
\* generate_ordering every participant has an ordering; a state where some
\* have one and others have none arises only by add_participant on a drawn
\* engine, and there the participants without ordering are those added since.
C10_DrawAllOrNothing ==
  [][/\ (last'.op = "generate_ordering" /\ last'.exc = "none")
          => AllDrawn(participants'[1])
     /\ (Mixed(participants'[1]) /\ ~Mixed(participants[1]))
          => IsAddAfterDraw
     /\ Mixed(participants'[1]) =>
          \A p \in PersonsOf(participants'[1]) :
            OrderingOf(participants'[1], p) = None => p \in late'[1]]_vars

C10_Witness ==
  /\ last.op = "generate_ordering" /\ last.exc = "none" /\ last.force
  /\ Len(participants[1]) >= 2
  /\ AllDrawn(participants[1])

\* C11. Ordering uniqueness: in every reachable state no two participants of
\* the engine hold the same non-NULL ordering.
C11_OrderingUnique ==
  \A i, j \in DOMAIN participants[1] :
    (i # j /\ participants[1][i].ordering # None)
      => participants[1][i].ordering # participants[1][j].ordering

\* two participants drawn by a forced re-draw, then one more added
C11_Witness ==
  /\ last.op = "add_participant"
  /\ Cardinality(DrawnPersons(1)) >= 2
  /\ seed[1] # None
  /\ late[1] # {}

\* the step removes the row of person r from engine 1, and r held an ordering
RemovedDrawn(r) ==
  /\ last'.op = "remove_person" /\ last'.engine = 1 /\ last'.exc = "none"
  /\ last'.person = r
  /\ OrderingOf(participants[1], r) # None

\* C12. Removal non-corruption: removing a drawn participant R leaves
\* has_who(P) and who_has(P) as they were for every other still-drawn P whose
\* result was not R, and has_who(R) and who_has(R) then fail (ValueError, the
\* code's NotParticipating).
C12_RemovalNonCorruption ==
  [][\A r \in People :
       RemovedDrawn(r) =>
         /\ \A p \in DrawnPersons(1)' :
              /\ has_who(1, p) # Returns(r) => has_who(1, p)' = has_who(1, p)
              /\ who_has(1, p) # Returns(r) => who_has(1, p)' = who_has(1, p)
         /\ has_who(1, r)' = Raises("ValueError")
         /\ who_has(1, r)' = Raises("ValueError")]_vars

\* a list without the element r
Without(lst, r) == SelectSeq(lst, LAMBDA x : x # r)

\* the element before / after position k of a list, around the ends
PredAt(lst, k) == lst[((k - 2) % Len(lst)) + 1]
SuccAt(lst, k) == lst[(k % Len(lst)) + 1]

\* C13. Removal heals by adjacency only: after removing a drawn participant R
\* every remaining participant keeps its ordering, get_ordered_list is the
\* previous list with R deleted, and has_who of the predecessor of R is the
\* former successor of R.
C13_RemovalHeals ==
  [][\A r \in People :
       RemovedDrawn(r) =>
         LET before == get_ordered_list(1)
             k == CHOOSE i \in DOMAIN before : before[i] = r
         IN /\ \A p \in PersonsOf(participants'[1]) :
                 OrderingOf(participants'[1], p) = OrderingOf(participants[1], p)
            /\ get_ordered_list(1)' = Without(before, r)
            /\ Len(before) >= 2 =>
                 \A pred \in People :
                   pred = PredAt(before, k) =>
                     has_who(1, pred)' = Returns(SuccAt(before, k))]_vars

\* C14. Degenerate draw: generate_ordering on an engine with fewer than two
\* participants does not succeed, assigns no ordering, and leaves no
\* participant whose has_who is themself.
C14_DegenerateDraw ==
  [][(/\ last'.op = "generate_ordering" /\ last'.engine = 1
      /\ Len(participants[1]) < 2)
     => /\ last'.exc # "none"
        /\ \A i \in DOMAIN participants'[1] :
             participants'[1][i].ordering = participants[1][i].ordering
        /\ \A p \in PersonsOf(participants'[1]) :
             (has_who(1, p) # Returns(p))']_vars

\* C15. No self-gifting in any reachable state: every has_who(P) that
\* returns a person returns one different from P, also when removals have
\* left fewer than two drawn participants.
C15_NoSelfGift ==
  \A p \in People :
    has_who(1, p).exc = "none" => has_who(1, p).val # p

\* C16. No partial mutation on failure: every call that raises (the
\* constructor given a non-Person, a non-forced generate_ordering on a drawn
\* engine, update_seen or removal of an absent person) leaves the
\* participants, every ordering and the seed of every engine as they were.
C16_NoPartialMutation ==
  [][last'.exc # "none" => (participants' = participants /\ seed' = seed)]_vars

\* a constructor call has failed next to a drawn engine and an existing
\* second one
C16_Witness ==
  /\ last.op = "__init__" /\ last.exc = "TypeError"
  /\ participants[2] # <<>>
  /\ Mixed(participants[1])
  /\ seed[1] # None

\* C17. has_who(person) is the element right after person in the ordered
\* list, and the first element when person is the last one.
C17_HasWhoNext ==
  LET ordered == get_ordered_list(1)
  IN \A k \in DOMAIN ordered :
       has_who(1, ordered[k]) = Returns(SuccAt(ordered, k))

\* C18. who_has(person) is the element right before person in the ordered
\* list, and the last element when person is the first one.
C18_WhoHasPrev ==
  LET ordered == get_ordered_list(1)
  IN \A k \in DOMAIN ordered :
       who_has(1, ordered[k]) = Returns(PredAt(ordered, k))

\* C19. has_who(person) and who_has(person) raise (ValueError, the code's
\* NotParticipating) whenever person has no ordering in the engine: not yet
\* drawn, added after the draw, removed, or never a participant; also when
\* the ordered list is empty.
C19_NotParticipating ==
  \A p \in People :
    OrderingOf(participants[1], p) = None =>
      /\ has_who(1, p) = Raises("ValueError")
      /\ who_has(1, p) = Raises("ValueError")

\* C20. get_ordered_list is exactly the persons of the participants with a
\* non-NULL ordering, each once, ascending by ordering; its length is the
\* number of drawn participants and no participant without ordering is in it.
C20_OrderedList ==
  LET ordered == get_ordered_list(1)
      rows == participants[1]
  IN /\ Range(ordered) = DrawnPersons(1)
     /\ Len(ordered) = Cardinality({i \in DOMAIN rows : rows[i].ordering # None})
     /\ \A i, j \in DOMAIN ordered : i # j => ordered[i] # ordered[j]
     /\ \A i, j \in DOMAIN ordered :
          i < j => OrderingOf(rows, ordered[i]) < OrderingOf(rows, ordered[j])
     /\ \A i \in DOMAIN ordered : OrderingOf(rows, ordered[i]) # None

\* drawn participants stored in another order than their orderings, next to
\* one without ordering
C20_Witness ==
  /\ Mixed(participants[1])
  /\ \E i, j \in DOMAIN participants[1] :
       /\ i < j
       /\ participants[1][j].ordering # None
       /\ participants[1][i].ordering > participants[1][j].ordering

\* the step is a call of generate_ordering on engine 1 that returned
IsDraw == last'.op = "generate_ordering" /\ last'.engine = 1 /\ last'.exc = "none"

\* C21. Successful draw postcondition: right after a successful
\* generate_ordering over N participants every participant has an ordering
\* and the orderings are exactly 0, 10, ..., 10*(N-1), one per participant.
C21_DrawPostcondition ==
  [][IsDraw =>
       LET rows == participants'[1]
           N == Len(participants[1])
       IN /\ Len(rows) = N
          /\ AllDrawn(rows)
          /\ {rows[i].ordering : i \in DOMAIN rows} = {10 * k : k \in 0..(N - 1)}
          /\ \A i, j \in DOMAIN rows : i # j => rows[i].ordering # rows[j].ordering]_vars

\* a non-forced draw over three participants has just returned
C21_Witness ==
  /\ last.op = "generate_ordering" /\ last.exc = "none" /\ ~last.force
  /\ Len(participants[1]) = 3
  /\ {participants[1][i].ordering : i \in DOMAIN participants[1]} = {0, 10, 20}

\* C22. SecretSanta(name, people, seed) raises (TypeError, the spec's
\* InvalidInput) and adds no participant if a member of people is not a
\* Person; otherwise every member becomes a participant with NULL ordering
\* and NULL seen, in list order, and nothing is drawn.
C22_Create ==
  [][\A people \in StartLists :
       SecretSanta_init(2, people, None) =>
         IF \E i \in DOMAIN people : people[i] \notin People
         THEN /\ last'.exc = "TypeError"
              /\ participants' = participants
         ELSE /\ last'.exc = "none"
              /\ participants'[2] =
                   [i \in DOMAIN people |->
                      [person |-> people[i], ordering |-> None, seen |-> None]]
              /\ ~drawn(2)'
              /\ participants'[1] = participants[1]]_vars

\* a second secret santa has been started with its list of people
C22_Witness ==
  /\ last.op = "__init__" /\ last.engine = 2 /\ last.exc = "none"
  /\ PersonsOf(participants[2]) = {3}
  /\ drawn(1)

\* C23. Seed evolution: the seed of an engine changes only in a
\* generate_ordering step on it that returns and in which the seed was NULL
\* or force was true, and the new value is an integer of the seed range; a
\* non-forced generate_ordering with a seed keeps it, and add, remove,
\* update_seen and calls that raise never change it.
C23_SeedEvolution ==
  [][/\ \A e \in Engines :
          seed'[e] # seed[e] =>
            /\ last'.op = "generate_ordering" /\ last'.engine = e
            /\ last'.exc = "none"
            /\ (seed[e] = None \/ last'.force)
            /\ seed'[e] \in Seeds
     /\ (last'.op = "generate_ordering" /\ ~last'.force
           /\ seed[last'.engine] # None) => seed' = seed
     /\ last'.op \in {"add_participant", "remove_person", "update_seen"}
          => seed' = seed
     /\ last'.exc # "none" => seed' = seed]_vars

\* a forced draw has replaced a seed, and a non-forced one has kept one
C23_Witness ==
  /\ last.op = "generate_ordering" /\ last.exc = "none" /\ ~last.force
  /\ seed[1] # None
  /\ late[1] # {}

\* C24. reset_seen: a generate_ordering that returns leaves every
\* participant's seen NULL when reset_seen is true (the default), and leaves
\* every participant's seen as it was when reset_seen is false.
C24_ResetSeen ==
  [][IsDraw =>
       /\ Len(participants'[1]) = Len(participants[1])
       /\ \A i \in DOMAIN participants[1] :
            /\ participants'[1][i].person = participants[1][i].person
            /\ participants'[1][i].seen =
                 IF last'.reset_seen THEN None ELSE participants[1][i].seen]_vars

\* a draw with reset_seen false has kept a timestamp
C24_Witness ==
  /\ last.op = "generate_ordering" /\ last.exc = "none" /\ ~last.reset_seen
  /\ \E i \in DOMAIN participants[1] : participants[1][i].seen # None
  /\ \E i \in DOMAIN participants[1] : participants[1][i].seen = None

\* the step is a call update_seen(p) on engine 1
IsUpdateSeen(p) ==
  last'.op = "update_seen" /\ last'.engine = 1 /\ last'.person = p

\* C26. update_seen(person) for a current participant sets that
\* participant's seen to a timestamp and leaves every other participant's
\* seen, every ordering, the seed and the participant set unchanged.
C26_UpdateSeen ==
  [][\A p \in People :
       (IsUpdateSeen(p) /\ p \in PersonsOf(participants[1])) =>
         /\ last'.exc = "none"
         /\ SeenOf(participants'[1], p) # None
         /\ Len(participants'[1]) = Len(participants[1])
         /\ \A i \in DOMAIN participants[1] :
              /\ participants'[1][i].person = participants[1][i].person
              /\ participants'[1][i].ordering = participants[1][i].ordering
              /\ participants[1][i].person # p =>
                   participants'[1][i].seen = participants[1][i].seen
         /\ seed' = seed]_vars

\* C27. update_seen(person) raises (IndexError, the spec's NotFound) and
\* changes no seen when person is not a current participant of the engine:
\* never added, or removed.
C27_UpdateSeenAbsent ==
  [][\A p \in People :
       (IsUpdateSeen(p) /\ p \notin PersonsOf(participants[1])) =>
         /\ last'.exc = "IndexError"
         /\ participants' = participants]_vars

\* C28. Removing a person deletes exactly the participant record of that
\* person when there is one, all other records untouched; when there is
\* none it fails (ValueError, the spec's NotFound), leaves the participants
\* unchanged and reports no removal.  The person is named as the admin
\* types it.
C28_Remove ==
  [][\A n \in InputNames :
       remove_person(1, n) =>
         LET rows == participants[1]
             named == {i \in DOMAIN rows : name(rows[i].person) = n}
         IN IF named # {}
            THEN /\ last'.exc = "none"
                 /\ \E i \in named : participants'[1] = RemoveAt(rows, i)
            ELSE /\ last'.exc = "ValueError"
                 /\ participants' = participants]_vars

\* ------------------------------------------------------------ the reveals
\* The persons of engine 1 that have revealed their assignment since the
\* last draw, after a call: update_seen(person) that returns adds person, a
\* removal takes the removed person out, a draw that returns starts afresh.
RevealedAfter ==
  IF last'.engine # 1 \/ last'.exc # "none" THEN revealed[1]
  ELSE IF last'.op = "update_seen" THEN revealed[1] \cup {last'.person}
  ELSE IF last'.op = "remove_person" THEN revealed[1] \ {last'.person}
  ELSE IF last'.op = "generate_ordering" THEN {}
  ELSE revealed[1]

Tracked ==
  /\ revealed' = [revealed EXCEPT ![1] = RevealedAfter]
  /\ UNCHANGED bot
  /\ UNCHANGED host

NextSeen ==
  \/ \E p \in People : add_participant(1, p) /\ Tracked
  \/ \E force, reset_seen \in BOOLEAN :
       generate_ordering(1, force, reset_seen) /\ Tracked
  \/ \E n \in InputNames : remove_person(1, n) /\ Tracked
  \/ \E p \in People : update_seen(1, p) /\ Tracked

SpecSeen == Init /\ [][NextSeen]_vars

\* C25. Seen tracking: in every reachable state a participant's seen is
\* non-NULL if and only if update_seen returned for that person after the
\* most recent draw.
C25_SeenTracking ==
  \A i \in DOMAIN participants[1] :
    participants[1][i].seen # None <=> participants[1][i].person \in revealed[1]

\* ------------------------------------------------------------ the chat bot
\* The Person rows made from the members of the Slack team ("Al" and "Bo");
\* they have a slack_id and can send commands.  "a l" is a person an admin
\* adds by name (Bot.add_person), without slack_id.
SlackMembers == {1, 3}

\* bot.py reads a person's chat identity as Person.slack_id and receives a
\* command as message["user"]; secretsanta.Person keeps that identity in
\* chat_id.  The commands are modelled by bot.py's own control flow, with
\* slack_id standing for the chat identity.
slack_id(p) == IF p \in SlackMembers THEN p ELSE None

\* Bot.check_admin: p in self.secret_santa.admins, a list membership test
\* with Person.__eq__
check_admin(p) == \E i \in DOMAIN admins : PersonEq(admins[i], p)

\* a handled command: the sender, the last message posted back, and the
\* persons an allocation was sent to
\* what a handler did: the handler, the sender, the last message posted to
\* the sender, the persons an allocation was sent to, the persons flagged
\* for manual delivery, the rows of the table or card shown, and the
\* exception that left the handler ("none" if it returned)
Answer(op, u, text, sent, manual, table, exc) ==
  [op |-> op, user |-> u, reply |-> text, sent |-> sent, manual |-> manual,
   table |-> table, exc |-> exc]

Reply(op, u, text, sent) == Answer(op, u, text, sent, {}, <<>>, "none")

\* ensure_admin_wrapped when check_admin fails: "Ho Ho No", the handler is
\* not run
Ho_Ho_No(u) ==
  /\ ~check_admin(u)
  /\ command' = Reply("ensure_admin", u, "Ho Ho No", {})
  /\ UNCHANGED <<participants, seed, rng, last, late, revealed, admins>>
  /\ UNCHANGED host

\* the member lists users_list may return to a start by u
MemberLists(u) ==
  {m \in InjectiveSeqs(SlackMembers, Cardinality(SlackMembers)) : u \in Range(m)}

\* Bot.start_secret_santa: a new secret santa over the members of the team
\* replaces the current one; the sender becomes its only admin
start_secret_santa(u, members) ==
  /\ check_admin(u)
  /\ SecretSanta_init(1, members, None)
  /\ admins' = <<u>>
  /\ command' = Reply("start_secret_santa", u, "Started a new secret santa", {})
  /\ revealed' = [revealed EXCEPT ![1] = {}]
  /\ UNCHANGED host

\* Bot.add_person: a new Person without slack_id is made and added
add_person(u, p) ==
  /\ check_admin(u)
  /\ slack_id(p) = None /\ p \notin Range(admins)
  /\ add_participant(1, p)
  /\ command' = Reply("add_person", u, "Added person", {})
  /\ UNCHANGED <<revealed, admins>>
  /\ UNCHANGED host

\* SlackBot.get_person_by_name: the first participant with that normalized
\* name, else the first admin with it, else None
get_person_by_name(n) ==
  LET key == normalize_name(n)
      row == get_participant_by_name(1, n)
      hits == {i \in DOMAIN admins : normalized_name(admins[i]) = key}
  IN IF row # None THEN participants[1][row].person
     ELSE IF hits # {} THEN admins[CHOOSE i \in hits : \A j \in hits : i <= j]
     ELSE None

\* admins.append(person) and the commit.  The admins table has the key
\* (secretsanta_id, person_id): for a person who is an admin already the
\* list read back holds them once or twice.
admins_append(person) ==
  {Append(admins, person)} \cup (IF person \in Range(admins) THEN {admins} ELSE {})

\* Bot.add_admin
add_admin(u, n) ==
  /\ check_admin(u)
  /\ IF get_person_by_name(n) = None
     THEN /\ command' = Reply("add_admin", u, "Couldn't find", {})
          /\ UNCHANGED admins
     ELSE /\ admins' \in {a \in admins_append(get_person_by_name(n)) : Len(a) <= MaxAdmins}
          /\ command' = Reply("add_admin", u, "Made an admin", {})
  /\ UNCHANGED <<participants, seed, rng, last, late, revealed>>
  /\ UNCHANGED host

\* Bot.remove_person behind ensure_admin
remove_person_command(u, n) ==
  /\ check_admin(u)
  /\ remove_person(1, n)
  /\ command' = Reply("remove_person", u,
                      IF last'.exc = "none" THEN "Removed" ELSE "Couldn't find", {})
  /\ UNCHANGED <<revealed, admins>>
  /\ UNCHANGED host

\* Bot.do_allocations: generate_ordering() with its defaults; RuntimeError
\* is caught
do_allocations(u) ==
  /\ check_admin(u)
  /\ generate_ordering(1, FALSE, TRUE)
  /\ command' = Reply("do_allocations", u,
                      IF last'.exc = "none" THEN "Ordering done!"
                         ELSE "No can do! The orderings have already been done!", {})
  /\ UNCHANGED <<revealed, admins>>
  /\ UNCHANGED host

\* Bot.send_all_allocations: it is not wrapped in ensure_admin.  The loop
\* goes through the participants in list order.  A participant with an
\* ordering and a slack_id is sent their allocation, one without slack_id
\* is reported for manual delivery.  For a participant without ordering
\* the loop calls self.post_message("Skipping ...") with one argument and
\* the TypeError ends the handler there.
send_all_allocations(u) ==
  /\ LET rows == participants[1]
         undrawn == {i \in DOMAIN rows : rows[i].ordering = None}
         stop == IF undrawn = {} THEN Len(rows) + 1
                 ELSE CHOOSE i \in undrawn : \A j \in undrawn : i <= j
         visited == {rows[i].person : i \in 1..(stop - 1)}
     IN command' = Answer("send_all_allocations", u,
                          IF undrawn = {} THEN "Done sending allocations!" ELSE "",
                          {q \in visited : slack_id(q) # None},
                          {q \in visited : slack_id(q) = None},
                          <<>>,
                          IF undrawn = {} THEN "none" ELSE "TypeError")
  /\ UNCHANGED <<participants, seed, rng, last, late, revealed, admins>>
  /\ UNCHANGED host

\* the bot after Bot.start_secret_santa by one of the members
InitBot ==
  /\ \E u \in SlackMembers : \E members \in MemberLists(u) :
       /\ participants = [e \in Engines |-> IF e = 1 THEN NewEngine(members) ELSE <<>>]
       /\ admins = <<u>>
       /\ command = Reply("start_secret_santa", u, "Started a new secret santa", {})
  /\ seed = [e \in Engines |-> None]
  /\ rng = None
  /\ last = NoCall
  /\ late = [e \in Engines |-> {}]
  /\ revealed = [e \in Engines |-> {}]
  /\ OneAtATime

\* a command sent by a person with a slack_id
NextBot ==
  \E u \in SlackMembers :
    \/ Ho_Ho_No(u)
    \/ \E members \in MemberLists(u) : start_secret_santa(u, members)
    \/ \E p \in People : add_person(u, p)
    \/ \E n \in InputNames : add_admin(u, n)
    \/ \E n \in InputNames : remove_person_command(u, n)
    \/ do_allocations(u)
    \/ send_all_allocations(u)

SpecBot == InitBot /\ [][NextBot]_vars

in_participants(person) ==
  \E i \in DOMAIN participants[1] : PersonEq(participants[1][i].person, person)

\* the engine and the admins are left as they are
QueryOnly == UNCHANGED <<participants, seed, rng, last, late, revealed, admins>>

\* what Bot.who_has and Bot.has_who do with the name typed; query is the
\* engine's who_has or has_who applied to the person found
query_command(op, u, n, answer, query) ==
  IF get_person_by_name(n) = None
  THEN Reply(op, u, "Couldn't find", {})
  ELSE IF ~in_participants(get_person_by_name(n))
  THEN Reply(op, u, "is not participating in the Secret Santa", {})
  ELSE IF query.exc # "none"
  THEN Answer(op, u, "", {}, {}, <<get_person_by_name(n)>>, query.exc)
  ELSE Answer(op, u, answer, {}, {}, <<get_person_by_name(n), query.val>>, "none")

\* Bot.who_has behind ensure_admin
who_has_command(u, n) ==
  /\ check_admin(u)
  /\ command' = query_command("who_has", u, n, "is getting a gift from",
                              IF get_person_by_name(n) = None THEN Raises("ValueError")
                              ELSE who_has(1, get_person_by_name(n)))
  /\ QueryOnly
  /\ UNCHANGED host

\* Bot.has_who behind ensure_admin
has_who_command(u, n) ==
  /\ check_admin(u)
  /\ command' = query_command("has_who", u, n, "is giving a gift to",
                              IF get_person_by_name(n) = None THEN Raises("ValueError")
                              ELSE has_who(1, get_person_by_name(n)))
  /\ QueryOnly
  /\ UNCHANGED host

\* the entry of the table for a participant without ordering
Not_Allocated == 0

\* a listing that asks the engine about every participant
allocated_always(row) == TRUE

\* if participant.ordering is None: ... else: ...
allocated(row) == row.ordering # None

\* Bot.print_everyone behind ensure_admin: the participants sorted by
\* normalized name, each with seen and, with allocations, with whom they
\* give to and get from; an exception of has_who or who_has leaves the
\* handler.  The last message posted is the table under its headers, or
\* "People are: " when there is nobody to list.
print_everyone(u, with_allocations) ==
  /\ check_admin(u)
  /\ LET people == sorted(participants[1], ByName(participants[1]))
         asked == {people[i].person : i \in {j \in DOMAIN people : allocated(people[j])}}
         raised == {q \in asked : has_who(1, q).exc # "none" \/ who_has(1, q).exc # "none"}
         output == [i \in DOMAIN people |->
                      IF ~with_allocations THEN <<people[i].person, people[i].seen>>
                      ELSE IF ~allocated(people[i])
                      THEN <<people[i].person, people[i].seen, Not_Allocated, Not_Allocated>>
                      ELSE <<people[i].person, people[i].seen,
                             has_who(1, people[i].person).val,
                             who_has(1, people[i].person).val>>]
     IN command' = IF with_allocations /\ raised # {}
                   THEN Answer("print_everyone", u, "", {}, {}, <<>>, "ValueError")
                   ELSE Answer("print_everyone", u,
                               IF output = <<>> THEN "People are: "
                               ELSE IF with_allocations
                               THEN "Name Email Seen? Is Gifting Getting a gift from"
                               ELSE "Name Email Seen?",
                               {}, {}, output, "none")
  /\ QueryOnly
  /\ UNCHANGED host

\* TeamsSecretSantaBase.reveal_allocation_card for the person who pressed
\* Reveal: has_who, then update_seen; a ValueError gives the other card
reveal_allocation_card(p) ==
  /\ IF has_who(1, p).exc = "ValueError"
     THEN /\ command' = Answer("reveal_allocation_card", p,
                               "Oops, you don't seem to be in this secret santa.",
                               {}, {}, <<>>, "none")
          /\ UNCHANGED <<participants, seed, rng, last, late>>
     ELSE /\ update_seen(1, p)
          /\ command' = IF last'.exc = "none"
                        THEN Answer("reveal_allocation_card", p, "Your secret santa is",
                                    {}, {}, <<has_who(1, p).val>>, "none")
                        ELSE Answer("reveal_allocation_card", p, "", {}, {}, <<>>, last'.exc)
  /\ UNCHANGED <<revealed, admins>>
  /\ UNCHANGED host

\* the commands and the cards of a secret santa that has been started
NextCards ==
  \E u \in SlackMembers :
    \/ Ho_Ho_No(u)
    \/ \E p \in People : add_person(u, p)
    \/ \E n \in InputNames : remove_person_command(u, n)
    \/ do_allocations(u)
    \/ send_all_allocations(u)
    \/ \E n \in InputNames : who_has_command(u, n)
    \/ \E n \in InputNames : has_who_command(u, n)
    \/ \E with_allocations \in BOOLEAN : print_everyone(u, with_allocations)
    \/ reveal_allocation_card(u)

SpecCards == InitBot /\ [][NextCards]_vars

\* the row of person p in the bot's secret santa has a seen stamp
HasSeen(rows, p) == \E i \in DOMAIN rows : rows[i].person = p /\ rows[i].seen # None

\* C33. Reveal flow: reveal_allocation_card marks a person seen if and only
\* if has_who succeeded for them; for a person with no ordering it shows
\* the "not in this secret santa" card, raises nothing and leaves every
\* seen value unchanged.
C33_RevealFlow ==
  [][\A p \in SlackMembers :
       (command'.op = "reveal_allocation_card" /\ command'.user = p) =>
         /\ command'.exc = "none"
         /\ has_who(1, p).exc = "none" => HasSeen(participants'[1], p)
         /\ has_who(1, p).exc # "none" => participants' = participants
         /\ p \notin DrawnPersons(1) =>
              /\ command'.reply = "Oops, you don't seem to be in this secret santa."
              /\ participants' = participants]_vars

\* C34. Broadcast completeness: send_all_allocations visits every
\* participant: each one with an ordering is sent their allocation or
\* reported for manual delivery, never both; one without ordering is
\* skipped and the run goes on; the run ends with "Done sending
\* allocations!".
C34_Broadcast ==
  [][command'.op = "send_all_allocations" =>
       /\ command'.exc = "none"
       /\ command'.reply = "Done sending allocations!"
       /\ command'.sent \cup command'.manual = DrawnPersons(1)
       /\ command'.sent \cap command'.manual = {}]_vars

C36_QueryNonFatal ==
  [][command'.op \in {"who_has", "has_who"} =>
       /\ command'.exc = "none"
       /\ participants' = participants /\ seed' = seed
       /\ command'.reply \in {"is getting a gift from", "is giving a gift to"} =>
            command'.table[1] \in DrawnPersons(1)]_vars

\* ------------------------------------------------------------ a concurrent host
\* The calls of generate_ordering of a host that runs each command on a
\* thread of its own.  Each engine has one caller that changes it; the
\* callers of different engines, and the readers of an engine, run at the
\* same time, and a thread may be switched between any two statements.

\* generate_ordering up to and including random.seed(self.seed): the guard,
\* the sort, and the seed
gen_begin(e, force, reset_seen) ==
  /\ gen[e].pc = "idle"
  /\ IF already_drawn(e, force)
     THEN /\ last' = Call("generate_ordering", e, 0, force, reset_seen, "RuntimeError")
          /\ UNCHANGED <<participants, seed, rng, gen>>
     ELSE \E newSeed \in draw_seeds(e, force) :
          /\ seed' = [seed EXCEPT ![e] = newSeed]
          /\ rng' = SeedState(newSeed)
          /\ gen' = [gen EXCEPT ![e] =
               [pc |-> "sample", force |-> force, reset_seen |-> reset_seen,
                rows |-> sorted(participants[e], ByName(participants[e])),
                place |-> 0, before |-> participants[e]]]
          /\ UNCHANGED <<participants, last>>
  /\ UNCHANGED <<late, revealed, admins, command, observed, proc>>

\* sorted_participants = random.sample(sorted_participants, k=...): it draws
\* from the stream as it is now
gen_sample(e) ==
  /\ gen[e].pc = "sample"
  /\ LET shuffled == sample(gen[e].rows, rng)
     IN /\ rng' = shuffled.rng
        /\ gen' = [gen EXCEPT ![e].pc = "write", ![e].rows = shuffled.out]
  /\ UNCHANGED <<participants, seed, last, late, revealed, admins, command,
                 observed, proc>>

\* one turn of the loop over enumerate(sorted_participants)
gen_write(e) ==
  /\ gen[e].pc = "write" /\ gen[e].place < Len(gen[e].rows)
  /\ LET p == gen[e].rows[gen[e].place + 1].person
     IN participants' = [participants EXCEPT ![e] =
          [i \in DOMAIN participants[e] |->
             IF participants[e][i].person = p
             THEN [person |-> p,
                   ordering |-> place_ordering(gen[e].rows, p),
                   seen |-> seen_after_draw(gen[e].reset_seen, participants[e][i].seen)]
             ELSE participants[e][i]]]
  /\ gen' = [gen EXCEPT ![e].place = @ + 1]
  /\ UNCHANGED <<seed, rng, last, late, revealed, admins, command, observed, proc>>

\* db_session.commit() and the return
gen_commit(e) ==
  /\ gen[e].pc = "write" /\ gen[e].place = Len(gen[e].rows)
  /\ last' = Call("generate_ordering", e, 0, gen[e].force, gen[e].reset_seen, "none")
  /\ late' = [late EXCEPT ![e] = IF gen[e].force THEN {} ELSE @]
  /\ gen' = [gen EXCEPT ![e] = NoFrame]
  /\ UNCHANGED <<participants, seed, rng, revealed, admins, command, observed, proc>>

\* get_ordered_list called by a reader of the engine while its caller may
\* be inside generate_ordering: the reader works on the same SecretSanta
\* object and reads the rows as they are
read_ordered_list(e) ==
  /\ observed' = [engine |-> e, list |-> get_ordered_list(e)]
  /\ UNCHANGED <<participants, seed, rng, last, late, revealed, admins, command,
                 gen, proc>>

\* the secret santas "Al, Bo" and "Bo, Al", each with a seed or none
InitThreads ==
  /\ participants = <<NewEngine(<<1, 3>>), NewEngine(<<3, 1>>)>>
  /\ seed \in [Engines -> Seeds \cup {None}]
  /\ rng = None
  /\ last = NoCall
  /\ late = [e \in Engines |-> {}]
  /\ revealed = [e \in Engines |-> {}]
  /\ NoBot
  /\ OneAtATime

NextThreads ==
  \E e \in Engines :
    \/ \E force \in BOOLEAN : gen_begin(e, force, TRUE)
    \/ gen_sample(e)
    \/ gen_write(e)
    \/ gen_commit(e)
    \/ read_ordered_list(e)

SpecThreads == InitThreads /\ [][NextThreads]_vars

\* C31. Reproducibility under interleaving: the order generate_ordering
\* shuffles the participants into is the one its seed gives, whatever any
\* other engine's generate_ordering did to the process-wide random stream
\* between the seeding and the shuffling.
C31_InterleavedDraw ==
  [][\A e \in Engines :
       (gen[e].pc = "sample" /\ gen'[e].pc = "write") =>
         gen'[e].rows = sample(gen[e].rows, SeedState(seed[e])).out]_vars

\* the ordered list of a list of rows
OrderedOf(rows) ==
  LET drawn_rows == SelectSeq(rows, LAMBDA x : x.ordering # None)
      srt == sorted(drawn_rows, ByOrdering(drawn_rows))
  IN [i \in 1..Len(srt) |-> srt[i].person]

\* C32. Draw atomicity relative to queries: a get_ordered_list that runs
\* while generate_ordering is at work on the same engine returns the
\* complete old draw or the complete new draw, and the rows it reads hold no
\* ordering twice.
C32_AtomicDraw ==
  [][\A e \in Engines :
       (observed' # observed /\ observed'.engine = e /\ gen[e].pc = "write") =>
         /\ observed'.list \in {OrderedOf(gen[e].before),
                                [i \in DOMAIN gen[e].rows |-> gen[e].rows[i].person]}
         /\ \A i, j \in DOMAIN participants[e] :
              (i # j /\ participants[e][i].ordering # None) =>
                participants[e][i].ordering # participants[e][j].ordering]_vars

\* ------------------------------------------------------------ two runs
\* The program run twice, each run a process with a random stream of its
\* own.  Run 1 works on the secret santa of slot 1, run 2 on that of slot
\* 2; rng is the stream of the run that is running and proc.parked that of
\* the other.  Run 1 makes a call, then run 2 makes the same call.

\* the draw takes its seed from a stream no random.seed has been called on
reads_unseeded(e, force) ==
  ~already_drawn(e, force) /\ (seed[e] = None \/ force) /\ rng = None

\* what the run does next: a call of add_participant, Bot.remove_person or
\* generate_ordering on its secret santa
run_call(e, op, p, force) ==
  \/ op = "add" /\ p \in People /\ force = FALSE /\ add_participant(e, p)
  \/ op = "remove" /\ p \in People /\ force = FALSE /\ remove_person(e, name(p))
  \/ op = "generate" /\ p = 0 /\ generate_ordering(e, force, TRUE)

first_run ==
  /\ proc.running = 1 /\ proc.pending = "none"
  /\ \E op \in {"add", "remove", "generate"}, p \in People \cup {0}, force \in BOOLEAN :
       /\ run_call(1, op, p, force)
       /\ proc' = [proc EXCEPT !.pending = op, !.p = p, !.force = force,
                               !.unseeded = @ \/ (op = "generate" /\ reads_unseeded(1, force))]
  /\ UNCHANGED <<revealed, admins, command, gen, observed>>

second_run ==
  /\ proc.running = 2 /\ proc.pending # "none"
  /\ run_call(2, proc.pending, proc.p, proc.force)
  /\ proc' = [proc EXCEPT !.pending = "none"]
  /\ UNCHANGED <<revealed, admins, command, gen, observed>>

\* the other process gets its turn
switch ==
  /\ (proc.running = 1) = (proc.pending # "none")
  /\ proc' = [proc EXCEPT !.running = 3 - @, !.parked = rng]
  /\ rng' = proc.parked
  /\ UNCHANGED <<participants, seed, last, late, revealed, admins, command,
                 gen, observed>>

\* both runs start the same secret santa with the same explicit seed
InitChain ==
  /\ \E roster \in InjectiveSeqs(People, Cardinality(People)) :
       participants = [e \in Engines |-> NewEngine(roster)]
  /\ \E s \in Seeds : seed = [e \in Engines |-> s]
  /\ rng = None
  /\ last = NoCall
  /\ late = [e \in Engines |-> {}]
  /\ revealed = [e \in Engines |-> {}]
  /\ NoBot
  /\ gen = [e \in Engines |-> NoFrame]
  /\ observed = NoRead
  /\ proc = NoProc

NextChain == first_run \/ second_run \/ switch

SpecChain == InitChain /\ [][NextChain]_vars

\* both runs have made the same calls
SameCalls == proc.running = 1 /\ proc.pending = "none"

\* the runs agree: the same rows with the same orderings, and the same seed
RunsAgree == participants[1] = participants[2] /\ seed[1] = seed[2]

\* C38 as claimed. Deterministic re-draw chain: two runs that start from
\* the same explicit seed and make the same add, remove and generate calls,
\* forced ones included, have the same seeds and orderings after every call.
C38_AnyChain == SameCalls => RunsAgree

\* C38. Deterministic re-draw chain: two runs that start from the same
\* explicit seed and make the same add, remove and generate calls have the
\* same seeds and the same orderings after every call, provided no forced
\* generate is made before the first generate that is not forced: a forced
\* generate takes its seed from the random stream, and before the first
\* random.seed that stream differs from run to run.
C38_SeededChain == (SameCalls /\ ~proc.unseeded) => RunsAgree

\* both runs have made a forced re-draw of two or more participants, after
\* a draw from the explicit seed
C38_Witness ==
  /\ SameCalls /\ ~proc.unseeded
  /\ last.op = "generate_ordering" /\ last.force /\ last.exc = "none"
  /\ Len(participants[1]) >= 2 /\ Len(participants[2]) >= 2
  /\ drawn(1) /\ drawn(2)

\* ------------------------------------------------------------ the dispatcher
\* str.strip() of the text of the activity
RECURSIVE lstrip(_)
lstrip(s) == IF s # <<>> /\ IsSpace(Head(s)) THEN lstrip(Tail(s)) ELSE s

reversed(s) == [i \in 1..Len(s) |-> s[Len(s) + 1 - i]]

strip(s) == reversed(lstrip(reversed(lstrip(s))))

\* re.I: the literals of a pattern are compared in lower case
lowered(t) == [i \in 1..Len(t) |-> lower(t[i])]

\* t[n:]
after(t, n) == SubSeq(t, n + 1, Len(t))

\* a group that took no part in the match: None in match.groups()
NoGroup == <<None>>

\* The patterns of teamsbot.valid_messages with the attribute each one
\* dispatches to, in list order.  A pattern is its alternative literal
\* heads, an optional blank (" ?"), one group and what follows the group:
\*   class "any"   (.*)        class "some"  (.+)
\*   class "name"  ([^<>]+)    class "noq"   ([^?]+)
\*   class "opt"   (lit)?      class "none"  no group
\* tails are the literals that may end the text after the group, the
\* shorter first; link is the tail " <?<[^|]*\|?([^>]+)>>?" with its group.
valid_messages == <<
  \* (?:hi|hello) ?(.*)
  [search |-> [heads |-> <<<<104, 105>>, <<104, 101, 108, 108, 111>>>>,
               sp |-> TRUE, class |-> "any", lit |-> <<>>,
               tails |-> <<<<>>>>, link |-> FALSE],
   action |-> "say_hi"],
  \* start a new secret santa: ?(.+)
  [search |-> [heads |-> <<<<115, 116, 97, 114, 116, 32, 97, 32, 110, 101, 119, 32, 115, 101, 99, 114, 101, 116, 32, 115, 97, 110, 116, 97, 58>>>>,
               sp |-> TRUE, class |-> "some", lit |-> <<>>,
               tails |-> <<<<>>>>, link |-> FALSE],
   action |-> "start_secret_santa"],
  \* add person: ?([^<>]+) <?<[^|]*\|?([^>]+)>>?
  [search |-> [heads |-> <<<<97, 100, 100, 32, 112, 101, 114, 115, 111, 110, 58>>>>,
               sp |-> TRUE, class |-> "name", lit |-> <<>>,
               tails |-> <<>>, link |-> TRUE],
   action |-> "add_person"],
  \* add person: ?([^<>]+)
  [search |-> [heads |-> <<<<97, 100, 100, 32, 112, 101, 114, 115, 111, 110, 58>>>>,
               sp |-> TRUE, class |-> "name", lit |-> <<>>,
               tails |-> <<<<>>>>, link |-> FALSE],
   action |-> "add_person"],
  \* add admin: ?(.+)
  [search |-> [heads |-> <<<<97, 100, 100, 32, 97, 100, 109, 105, 110, 58>>>>,
               sp |-> TRUE, class |-> "some", lit |-> <<>>,
               tails |-> <<<<>>>>, link |-> FALSE],
   action |-> "add_admin"],
  \* remove person: ?(.+)
  [search |-> [heads |-> <<<<114, 101, 109, 111, 118, 101, 32, 112, 101, 114, 115, 111, 110, 58>>>>,
               sp |-> TRUE, class |-> "some", lit |-> <<>>,
               tails |-> <<<<>>>>, link |-> FALSE],
   action |-> "remove_person"],
  \* print everyone ?(with allocations)?
  [search |-> [heads |-> <<<<112, 114, 105, 110, 116, 32, 101, 118, 101, 114, 121, 111, 110, 101>>>>,
               sp |-> TRUE, class |-> "opt", lit |-> <<119, 105, 116, 104, 32, 97, 108, 108, 111, 99, 97, 116, 105, 111, 110, 115>>,
               tails |-> <<<<>>>>, link |-> FALSE],
   action |-> "print_everyone"],
  \* do allocations ?(redo)?
  [search |-> [heads |-> <<<<100, 111, 32, 97, 108, 108, 111, 99, 97, 116, 105, 111, 110, 115>>>>,
               sp |-> TRUE, class |-> "opt", lit |-> <<114, 101, 100, 111>>,
               tails |-> <<<<>>>>, link |-> FALSE],
   action |-> "do_allocations"],
  \* who do i have
  [search |-> [heads |-> <<<<119, 104, 111, 32, 100, 111, 32, 105, 32, 104, 97, 118, 101>>>>,
               sp |-> FALSE, class |-> "none", lit |-> <<>>,
               tails |-> <<<<>>>>, link |-> FALSE],
   action |-> "print_me"],
  \* who has ([^?]+)\??
  [search |-> [heads |-> <<<<119, 104, 111, 32, 104, 97, 115, 32>>>>,
               sp |-> FALSE, class |-> "noq", lit |-> <<>>,
               tails |-> <<<<>>, <<63>>>>, link |-> FALSE],
   action |-> "who_has"],
  \* who does (.+) have\??
  [search |-> [heads |-> <<<<119, 104, 111, 32, 100, 111, 101, 115, 32>>>>,
               sp |-> FALSE, class |-> "some", lit |-> <<>>,
               tails |-> <<<<32, 104, 97, 118, 101>>, <<32, 104, 97, 118, 101, 63>>>>, link |-> FALSE],
   action |-> "has_who"],
  \* send all allocations
  [search |-> [heads |-> <<<<115, 101, 110, 100, 32, 97, 108, 108, 32, 97, 108, 108, 111, 99, 97, 116, 105, 111, 110, 115>>>>,
               sp |-> FALSE, class |-> "none", lit |-> <<>>,
               tails |-> <<<<>>>>, link |-> FALSE],
   action |-> "send_all_allocations"],
  \* send allocation to (.+)
  [search |-> [heads |-> <<<<115, 101, 110, 100, 32, 97, 108, 108, 111, 99, 97, 116, 105, 111, 110, 32, 116, 111, 32>>>>,
               sp |-> FALSE, class |-> "some", lit |-> <<>>,
               tails |-> <<<<>>>>, link |-> FALSE],
   action |-> "send_allocation_to"],
  \* send admin help to (.+)
  [search |-> [heads |-> <<<<115, 101, 110, 100, 32, 97, 100, 109, 105, 110, 32, 104, 101, 108, 112, 32, 116, 111, 32>>>>,
               sp |-> FALSE, class |-> "some", lit |-> <<>>,
               tails |-> <<<<>>>>, link |-> FALSE],
   action |-> "send_admin_help"],
  \* post welcome message
  [search |-> [heads |-> <<<<112, 111, 115, 116, 32, 119, 101, 108, 99, 111, 109, 101, 32, 109, 101, 115, 115, 97, 103, 101>>>>,
               sp |-> FALSE, class |-> "none", lit |-> <<>>,
               tails |-> <<<<>>>>, link |-> FALSE],
   action |-> "post_welcome_message"],
  \* help
  [search |-> [heads |-> <<<<104, 101, 108, 112>>>>,
               sp |-> FALSE, class |-> "none", lit |-> <<>>,
               tails |-> <<<<>>>>, link |-> FALSE],
   action |-> "return_help"] >>

\* the character class of the group of a pattern
ClassOK(p, g) ==
  CASE p.class = "any" -> 10 \notin Range(g)
    [] p.class = "some" -> g # <<>> /\ 10 \notin Range(g)
    [] p.class = "name" -> g # <<>> /\ Range(g) \cap {60, 62} = {}
    [] p.class = "noq" -> g # <<>> /\ 63 \notin Range(g)
    [] p.class = "opt" -> g = <<>> \/ lowered(g) = p.lit
    [] p.class = "none" -> g = <<>>

\* the ways t can be read as " <?<[^|]*\|?([^>]+)>>?": a "<" after the
\* blank, b ">" at the end, k characters before the bar, the bar or none
LinkSplits(t) ==
  {s \in (1..2) \X (1..2) \X (0..Len(t)) \X (0..1) :
     /\ Len(t) >= s[1] + s[2] + 2
     /\ t[1] = 32
     /\ \A i \in 2..(1 + s[1]) : t[i] = 60
     /\ \A i \in (Len(t) - s[2] + 1)..Len(t) : t[i] = 62
     /\ LET x == SubSeq(t, 2 + s[1], Len(t) - s[2])
        IN /\ s[3] + s[4] < Len(x)
           /\ \A i \in 1..s[3] : x[i] # 124
           /\ s[4] = 1 => x[s[3] + 1] = 124
           /\ \A i \in (s[3] + s[4] + 1)..Len(x) : x[i] # 62}

\* the second group of the link pattern: every quantifier is greedy
LinkGroup(t) ==
  LET key(s) == (s[1] * 2 * (Len(t) + 1)) + (s[3] * 2) + s[4]
      s == CHOOSE s \in LinkSplits(t) : \A r \in LinkSplits(t) : key(s) >= key(r)
  IN SubSeq(t, 2 + s[1] + s[3] + s[4], Len(t) - s[2])

\* what may follow the group of pattern p up to the end of the text
Accepts(p, t) == IF p.link THEN LinkSplits(t) # {} ELSE lowered(t) \in Range(p.tails)

\* match.groups()
Groups(p, g, t) ==
  CASE p.class = "none" -> <<>>
    [] p.class = "opt" -> <<IF g = <<>> THEN NoGroup ELSE g>>
    [] p.link -> <<g, LinkGroup(t)>>
    [] OTHER -> <<g>>

NoMatch == [matched |-> FALSE, groups |-> <<>>]

\* one alternative of the pattern tried on the text: head h, blank taken
\* (sp = 1) or not, then the longest group that lets the rest match; with
\* full = FALSE the match may end before the text does
attempt(p, t, h, sp, full) ==
  IF \/ Len(t) < Len(h) + sp
     \/ SubSeq(lowered(t), 1, Len(h)) # h
     \/ sp = 1 /\ (~p.sp \/ t[Len(h) + 1] # 32)
  THEN NoMatch
  ELSE LET r == after(t, Len(h) + sp)
           fits == {k \in 0..Len(r) :
                      /\ ClassOK(p, SubSeq(r, 1, k))
                      /\ \E n \in k..Len(r) :
                           /\ Accepts(p, SubSeq(r, k + 1, n))
                           /\ full => n = Len(r)}
           k == CHOOSE k \in fits : \A j \in fits : k >= j
           n == CHOOSE n \in k..Len(r) :
                  /\ Accepts(p, SubSeq(r, k + 1, n))
                  /\ full => n = Len(r)
       IN IF fits = {} THEN NoMatch
          ELSE [matched |-> TRUE, groups |-> Groups(p, SubSeq(r, 1, k), SubSeq(r, k + 1, n))]

\* the alternatives in the order the regular expression engine tries them:
\* the heads from left to right, for each the blank taken before not taken
scan(p, t, full) ==
  LET alt == [n \in 1..(2 * Len(p.heads)) |->
                attempt(p, t, p.heads[(n + 1) \div 2], n % 2, full)]
      hits == {n \in DOMAIN alt : alt[n].matched}
  IN IF hits = {} THEN NoMatch ELSE alt[CHOOSE n \in hits : \A j \in hits : n <= j]

\* search.match(message_text): the pattern matches at the start of the text
match(search, text) == scan(search, text, FALSE)

\* search.fullmatch(message_text): the pattern matches the whole text
fullmatch(search, text) == scan(search, text, TRUE)

\* for search, action in valid_messages: ... return at the first match;
\* the index of the entry dispatched to, 0 when the loop runs to its else
RECURSIVE first_match(_, _)
first_match(text, i) ==
  IF i > Len(valid_messages) THEN 0
  ELSE IF fullmatch(valid_messages[i].search, text).matched THEN i
  ELSE first_match(text, i + 1)

\* the Person that carries the name typed
named(n) == {p \in People : name(p) = n}

\* Bot.say_hi
say_hi(u) ==
  /\ command' = Reply("say_hi", u, "Hi", {})
  /\ QueryOnly
  /\ UNCHANGED host

\* Bot.print_me: the sender is sent the card that reveals their own
\* allocation
print_me(u) ==
  /\ command' = Reply("print_me", u,
                      "Press the button below to reveal your secret santa: ", {u})
  /\ QueryOnly
  /\ UNCHANGED host

\* Bot.send_allocation_to: after "Couldn't find" the handler goes on and
\* reads participant.participant of None
send_allocation_to(u, n) ==
  /\ command' = IF get_participant_by_name(1, n) = None
                THEN Answer("send_allocation_to", u, "Couldn't find", {}, {}, <<>>,
                            "AttributeError")
                ELSE Reply("send_allocation_to", u, "Sent allocation to",
                           {participants[1][get_participant_by_name(1, n)].person})
  /\ QueryOnly
  /\ UNCHANGED host

\* Bot.send_admin_help behind ensure_admin
send_admin_help(u, n) ==
  /\ check_admin(u)
  /\ command' = IF get_person_by_name(n) = None
                THEN Reply("send_admin_help", u, "Couldn't find the user", {})
                ELSE IF slack_id(get_person_by_name(n)) = None
                THEN Reply("send_admin_help", u, "is not on slack", {})
                ELSE IF ~check_admin(get_person_by_name(n))
                THEN Reply("send_admin_help", u, "is not an admin", {})
                ELSE Reply("send_admin_help", u, "Sent admin welcome message", {})
  /\ QueryOnly
  /\ UNCHANGED host

\* Bot.post_welcome_message behind ensure_admin: the channel "general" is
\* found or not; when it is, the handler reads the slack_id of the person
\* named "Sebastian Pauka", whom get_person_by_name does not find here
post_welcome_message(u) ==
  /\ check_admin(u)
  /\ \E general \in BOOLEAN :
       command' = IF general
                  THEN Answer("post_welcome_message", u, "", {}, {}, <<>>, "AttributeError")
                  ELSE Reply("post_welcome_message", u, "Couldn't find channel", {})
  /\ QueryOnly
  /\ UNCHANGED host

\* Bot.return_help
return_help(u) ==
  /\ command' = Reply("return_help", u,
                      IF check_admin(u) THEN "admin_help.txt" ELSE "help.txt", {})
  /\ QueryOnly
  /\ UNCHANGED host

\* Bot.do_allocations as the dispatcher calls it: the pattern has a group,
\* the handler takes no argument after the message, and
\* ensure_admin_wrapped hands the group on: TypeError before anything is
\* drawn
do_allocations_redo(u, redo) ==
  /\ check_admin(u)
  /\ command' = Answer("do_allocations", u, "", {}, {}, <<>>, "TypeError")
  /\ QueryOnly
  /\ UNCHANGED host

\* the else of the loop: no pattern matched
not_sure(u) ==
  /\ command' = Reply("on_message_activity", u,
                      "I'm not sure how to respond to that.",
                      {})
  /\ QueryOnly
  /\ UNCHANGED host

\* the handlers behind BotDecorators.ensure_admin
Wrapped == {"start_secret_santa", "add_person", "add_admin", "remove_person",
            "print_everyone", "do_allocations", "who_has", "has_who",
            "send_admin_help", "post_welcome_message"}

\* getattr(team, action)(person, *match.groups())
invoke(action, u, groups) ==
  \/ action \in Wrapped /\ Ho_Ho_No(u)
  \/ action = "say_hi" /\ say_hi(u)
  \/ action = "start_secret_santa" /\ \E members \in MemberLists(u) :
                                        start_secret_santa(u, members)
  \/ action = "add_person" /\ \E p \in named(groups[1]) : add_person(u, p)
  \/ action = "add_admin" /\ add_admin(u, groups[1])
  \/ action = "remove_person" /\ remove_person_command(u, groups[1])
  \/ action = "print_everyone" /\ print_everyone(u, groups[1] # NoGroup)
  \/ action = "do_allocations" /\ do_allocations_redo(u, groups[1])
  \/ action = "print_me" /\ print_me(u)
  \/ action = "who_has" /\ who_has_command(u, groups[1])
  \/ action = "has_who" /\ has_who_command(u, groups[1])
  \/ action = "send_all_allocations" /\ send_all_allocations(u)
  \/ action = "send_allocation_to" /\ send_allocation_to(u, groups[1])
  \/ action = "send_admin_help" /\ send_admin_help(u, groups[1])
  \/ action = "post_welcome_message" /\ post_welcome_message(u)
  \/ action = "return_help" /\ return_help(u)

\* the texts a member sends
Texts == {
  <<72, 105>>,   \* "Hi"
  <<115, 116, 97, 114, 116, 32, 97, 32, 110, 101, 119, 32, 115, 101, 99, 114, 101, 116, 32, 115, 97, 110, 116, 97, 58, 32, 120>>,   \* "start a new secret santa: x"
  <<97, 100, 100, 32, 112, 101, 114, 115, 111, 110, 58, 32, 97, 32, 108, 32, 60, 97, 64, 120, 124, 97, 64, 120, 62>>,   \* "add person: a l <a@x|a@x>"
  <<97, 100, 100, 32, 112, 101, 114, 115, 111, 110, 58, 32, 97, 32, 108>>,   \* "add person: a l"
  <<97, 100, 100, 32, 97, 100, 109, 105, 110, 58, 32, 66, 111>>,   \* "add admin: Bo"
  <<114, 101, 109, 111, 118, 101, 32, 112, 101, 114, 115, 111, 110, 58, 32, 65, 108>>,   \* "remove person: Al"
  <<114, 101, 109, 111, 118, 101, 32, 112, 101, 114, 115, 111, 110, 58, 32, 97, 32, 108>>,   \* "remove person: a l"
  <<112, 114, 105, 110, 116, 32, 101, 118, 101, 114, 121, 111, 110, 101, 32, 119, 105, 116, 104, 32, 97, 108, 108, 111, 99, 97, 116, 105, 111, 110, 115>>,   \* "print everyone with allocations"
  <<100, 111, 32, 97, 108, 108, 111, 99, 97, 116, 105, 111, 110, 115>>,   \* "do allocations"
  <<119, 104, 111, 32, 100, 111, 32, 105, 32, 104, 97, 118, 101>>,   \* "who do i have"
  <<119, 104, 111, 32, 104, 97, 115, 32, 66, 111, 63>>,   \* "who has Bo?"
  <<119, 104, 111, 32, 100, 111, 101, 115, 32, 97, 32, 108, 32, 104, 97, 118, 101>>,   \* "who does a l have"
  <<115, 101, 110, 100, 32, 97, 108, 108, 32, 97, 108, 108, 111, 99, 97, 116, 105, 111, 110, 115>>,   \* "send all allocations"
  <<115, 101, 110, 100, 32, 97, 108, 108, 111, 99, 97, 116, 105, 111, 110, 32, 116, 111, 32, 66, 111>>,   \* "send allocation to Bo"
  <<115, 101, 110, 100, 32, 97, 100, 109, 105, 110, 32, 104, 101, 108, 112, 32, 116, 111, 32, 66, 111>>,   \* "send admin help to Bo"
  <<112, 111, 115, 116, 32, 119, 101, 108, 99, 111, 109, 101, 32, 109, 101, 115, 115, 97, 103, 101>>,   \* "post welcome message"
  <<32, 72, 69, 76, 80, 32>>,   \* " HELP "
  <<104, 101, 108, 112, 102, 117, 108>>,   \* "helpful"
  <<100, 111, 32, 97, 108, 108, 111, 99, 97, 116, 105, 111, 110, 115, 32, 102, 111, 114, 99, 101>>,   \* "do allocations force"
  <<119, 104, 111, 32, 104, 97, 115>>,   \* "who has"
  <<112, 108, 101, 97, 115, 101, 32, 104, 101, 108, 112>>   \* "please help"
}

\* message_text = text.strip() and the loop over valid_messages, tabulated
\* for every text: the entry dispatched to (0 for none), its attribute and
\* match.groups()
routes ==
  [text \in Texts |->
     LET message_text == strip(text)
         i == first_match(message_text, 1)
     IN [entry |-> i,
         action |-> IF i = 0 THEN "" ELSE valid_messages[i].action,
         groups |-> IF i = 0 THEN <<>>
                    ELSE fullmatch(valid_messages[i].search, message_text).groups]]

\* TeamsBot.on_message_activity for a personal message of a known person
on_message_activity(u, text) ==
  \/ routes[text].entry = 0 /\ not_sure(u)
  \/ invoke(routes[text].action, u, routes[text].groups)

NextDispatch == \E u \in SlackMembers : \E text \in Texts : on_message_activity(u, text)

SpecDispatch == InitBot /\ [][NextDispatch]_vars

\* the text is the pattern from its first to its last character: one of
\* the heads, the blank or not, a group of the class and one of the tails
FullyMatches(p, t) ==
  \E j \in DOMAIN p.heads : \E sp \in 0..1 : \E k \in 0..Len(t) :
    LET start == Len(p.heads[j]) + sp
    IN /\ start + k <= Len(t)
       /\ SubSeq(lowered(t), 1, Len(p.heads[j])) = p.heads[j]
       /\ sp = 1 => (p.sp /\ t[start] = 32)
       /\ ClassOK(p, SubSeq(t, start + 1, start + k))
       /\ Accepts(p, SubSeq(t, start + k + 1, Len(t)))

\* the entries whose pattern fully matches the text, for every text
Matching ==
  [text \in Texts |->
     {i \in DOMAIN valid_messages : FullyMatches(valid_messages[i].search, strip(text))}]

\* C37. First matching pattern wins: a personal message of a known sender
\* has exactly one outcome.  When some pattern of valid_messages fully
\* matches the text, the handler of the first such entry is what runs (or
\* its admin check refuses the sender) and the "not sure" reply is not
\* sent; when none matches, the reply is "I'm not sure how to respond to
\* that..." and neither the participants, the seeds nor the admins change.
C37_FirstMatchWins ==
  [][\A u \in SlackMembers : \A text \in Texts :
       on_message_activity(u, text) =>
         IF Matching[text] = {}
         THEN /\ command'.op = "on_message_activity"
              /\ command'.reply = "I'm not sure how to respond to that."
              /\ participants' = participants /\ seed' = seed /\ admins' = admins
         ELSE LET i == CHOOSE i \in Matching[text] : \A j \in Matching[text] : i <= j
              IN /\ command'.user = u
                 /\ command'.op # "on_message_activity"
                 /\ \/ command'.op = valid_messages[i].action
                    \/ /\ command'.op = "ensure_admin"
                       /\ valid_messages[i].action \in Wrapped
                       /\ ~check_admin(u)]_vars

\* a text that no pattern fully matches has been answered, after a command
\* that changed the participants was dispatched
C37_Witness ==
  /\ command.op = "on_message_activity"
  /\ Len(participants[1]) = 3

====
